---- MODULE Spec2Model ----
(***************************************************************************)
(* A model of ast1.py: PythonProjectParser, which walks a directory tree,  *)
(* parses every eligible Python file into a syntax tree, extracts the      *)
(* top-level functions and classes (methods, simple variable bindings,     *)
(* import dependencies) and accumulates a module-keyed project structure   *)
(* that save_to_json writes as JSON.                                       *)
(*                                                                         *)
(* Two specifications:                                                     *)
(*   SpecAst  the pure syntax-tree functions (_extract_dependencies,       *)
(*            _parse_function, _parse_class, parse_file) applied to        *)
(*            bounded syntax trees;                                        *)
(*   Spec     the project walker (parse_project, save_to_json, main) over  *)
(*            bounded directory trees.                                     *)
(***************************************************************************)
EXTENDS Integers, Sequences, FiniteSets, TLC

(***************************************************************************)
(* Bounds of the model.                                                    *)
(***************************************************************************)
\* longest body of a function under test
MaxBody == 3
\* longest body of a class or module under test
MaxDecls == 2
\* most files in a directory tree
MaxFiles == 2

(***************************************************************************)
(* Python values.                                                          *)
(***************************************************************************)
\* Python's None, where a string is expected (ImportFrom.module, alias.asname).
\* "None" is a keyword and so never a module or identifier name.
None == "None"

\* `x or d` on an optional string: None and '' are falsy.
Or(x, d) == IF x = None \/ x = "" THEN d ELSE x

\* A Python dict: the sequence of its <<key, value>> items in insertion order,
\* keys unique.
EmptyDict == <<>>

DictHas(d, k) == \E i \in 1..Len(d) : d[i][1] = k

DictGet(d, k) == d[CHOOSE i \in 1..Len(d) : d[i][1] = k][2]

\* d[k] = v: an existing key keeps its place; a new key goes last.
DictSet(d, k, v) ==
    IF DictHas(d, k)
    THEN [i \in 1..Len(d) |-> IF d[i][1] = k THEN <<k, v>> ELSE d[i]]
    ELSE Append(d, <<k, v>>)

\* str.startswith, str.endswith, str.replace (one-character pattern), str.strip
StartsWith(s, p) == Len(s) >= Len(p) /\ SubSeq(s, 1, Len(p)) = p

EndsWith(s, p) == Len(s) >= Len(p) /\ SubSeq(s, Len(s) - Len(p) + 1, Len(s)) = p

RECURSIVE Replace(_, _, _)
Replace(s, old, new) ==
    IF Len(s) = 0 THEN ""
    ELSE (IF SubSeq(s, 1, 1) = old THEN new ELSE SubSeq(s, 1, 1))
         \o Replace(SubSeq(s, 2, Len(s)), old, new)

RECURSIVE Strip(_)
Strip(s) ==
    IF Len(s) = 0 THEN s
    ELSE IF SubSeq(s, 1, 1) = " " THEN Strip(SubSeq(s, 2, Len(s)))
    ELSE IF SubSeq(s, Len(s), Len(s)) = " " THEN Strip(SubSeq(s, 1, Len(s) - 1))
    ELSE s

(***************************************************************************)
(* Syntax trees (module ast).  A node is a record with a kind; the kinds   *)
(* the parser tells apart are Import, ImportFrom, Assign, FunctionDef and  *)
(* ClassDef, every other statement or child node is of another kind.       *)
(***************************************************************************)
Alias(name, asname) == [name |-> name, asname |-> asname]

Import(names) == [kind |-> "Import", names |-> names]

ImportFrom(module, names) == [kind |-> "ImportFrom", module |-> module, names |-> names]

Name(id) == [kind |-> "Name", id |-> id]

Attribute(value, attr) == [kind |-> "Attribute", value |-> value, attr |-> attr]

TupleOf(elts) == [kind |-> "Tuple", elts |-> elts]

Constant(value) == [kind |-> "Constant", value |-> value]

\* An expression nested so deeply that ast.unparse exceeds the recursion limit.
TooDeep == [kind |-> "TooDeep"]

Assign(targets, value) == [kind |-> "Assign", targets |-> targets, value |-> value]

FunctionDef(name, body) == [kind |-> "FunctionDef", name |-> name, lineno |-> 0, body |-> body]

ClassDef(name, body) == [kind |-> "ClassDef", name |-> name, lineno |-> 0, body |-> body]

\* pass, return, an expression statement, an augmented or annotated assignment
Pass == [kind |-> "Pass"]

Module(body) == [kind |-> "Module", body |-> body]

\* ast.iter_child_nodes: the nodes in the node's fields, in field order.  A
\* FunctionDef's fields are name, args, body, ...: its arguments node comes first.
iter_child_nodes(node) ==
    IF node.kind = "FunctionDef" THEN <<[kind |-> "arguments"]>> \o node.body
    ELSE node.body

\* ast.unparse: the expression as source text.
unparse(expr) ==
    CASE expr.kind = "Constant" -> ToString(expr.value)
      [] expr.kind = "Name" -> expr.id
      [] expr.kind = "Attribute" -> expr.value \o "." \o expr.attr
      [] OTHER -> "RecursionError"

\* ast.unparse raises (RecursionError) on this expression.
unparse_raises(expr) == expr.kind = "TooDeep"

(***************************************************************************)
(* PythonProjectParser: the syntax-tree functions.                         *)
(***************************************************************************)
\* A slip: the check of the __ prefix is left out.
_is_python_file_suffix_only(filename) == EndsWith(filename, ".py")

\* _is_python_file: the name ends in .py and does not start with __
_is_python_file(filename) == EndsWith(filename, ".py") /\ ~StartsWith(filename, "__")

\* The loop of _extract_dependencies over the node's children, left to right.
RECURSIVE extract_loop(_, _)
extract_loop(children, dependencies) ==
    IF children = <<>> THEN dependencies
    ELSE LET child == Head(children)
             found ==
                 IF child.kind = "Import"
                 THEN [i \in 1..Len(child.names) |-> child.names[i].name]
                 ELSE IF child.kind = "ImportFrom"
                 THEN LET module == Or(child.module, "")
                      IN  [i \in 1..Len(child.names) |->
                              module \o "." \o child.names[i].name]
                 ELSE <<>>
         IN  extract_loop(Tail(children), dependencies \o found)

RECURSIVE walk_nodes(_)
\* the nodes below, nested bodies included (ast.walk)
walk_nodes(children) ==
    IF children = <<>> THEN <<>>
    ELSE LET child == Head(children)
         IN  <<child>>
             \o (IF child.kind \in {"FunctionDef", "ClassDef"}
                 THEN walk_nodes(iter_child_nodes(child)) ELSE <<>>)
             \o walk_nodes(Tail(children))

\* A slip: ast.walk in place of ast.iter_child_nodes.
_extract_dependencies_walk(node) == extract_loop(walk_nodes(iter_child_nodes(node)), <<>>)

_extract_dependencies(node) == extract_loop(iter_child_nodes(node), <<>>)

RECURSIVE assign_targets_first(_, _, _)
\* A slip: variables.setdefault(target.id, ...), the first binding is kept.
assign_targets_first(targets, value, variables) ==
    IF targets = <<>> THEN variables
    ELSE LET target == Head(targets)
         IN  assign_targets_first(Tail(targets), value,
                 IF target.kind = "Name" /\ ~DictHas(variables, target.id)
                 THEN DictSet(variables, target.id, Strip(unparse(value)))
                 ELSE variables)

\* A slip: only an assignment with one target is recorded.
assign_targets_single(targets, value, variables) ==
    IF Len(targets) = 1 /\ targets[1].kind = "Name"
    THEN DictSet(variables, targets[1].id, Strip(unparse(value)))
    ELSE variables

\* for target in child.targets: if isinstance(target, ast.Name):
\*     variables[target.id] = ast.unparse(child.value).strip()
RECURSIVE assign_targets(_, _, _)
assign_targets(targets, value, variables) ==
    IF targets = <<>> THEN variables
    ELSE LET target == Head(targets)
         IN  assign_targets(Tail(targets), value,
                 IF target.kind = "Name"
                 THEN DictSet(variables, target.id, Strip(unparse(value)))
                 ELSE variables)

\* The statement renders its value: it has a Name target.
renders_value(child) ==
    /\ child.kind = "Assign"
    /\ \E i \in 1..Len(child.targets) : child.targets[i].kind = "Name"

\* The loop of _parse_function over the function's children.
RECURSIVE function_loop(_, _)
function_loop(children, variables) ==
    IF children = <<>> THEN variables
    ELSE LET child == Head(children)
         IN  function_loop(Tail(children),
                 IF child.kind = "Assign"
                 THEN assign_targets(child.targets, child.value, variables)
                 ELSE variables)

_parse_function(func_node) ==
    [name |-> func_node.name,
     variables |-> function_loop(iter_child_nodes(func_node), EmptyDict),
     dependencies |-> _extract_dependencies(func_node),
     line_number |-> func_node.lineno]

\* _parse_function raises: ast.unparse fails on a value it renders.
_parse_function_raises(func_node) ==
    LET children == iter_child_nodes(func_node)
    IN  \E i \in 1..Len(children) :
            renders_value(children[i]) /\ unparse_raises(children[i].value)

RECURSIVE class_loop_first(_, _)
\* A slip: a method whose name is taken is not stored again.
class_loop_first(children, acc) ==
    IF children = <<>> THEN acc
    ELSE LET child == Head(children)
         IN  class_loop_first(Tail(children),
                 IF child.kind = "FunctionDef"
                 THEN IF DictHas(acc.methods, child.name) THEN acc
                      ELSE [acc EXCEPT !.methods =
                               DictSet(@, child.name, _parse_function(child))]
                 ELSE IF child.kind = "Assign"
                 THEN [acc EXCEPT !.class_variables =
                          assign_targets(child.targets, child.value, @)]
                 ELSE acc)

\* The loop of _parse_class over the class's children; acc holds methods and
\* class_variables.
RECURSIVE class_loop(_, _)
class_loop(children, acc) ==
    IF children = <<>> THEN acc
    ELSE LET child == Head(children)
         IN  class_loop(Tail(children),
                 IF child.kind = "FunctionDef"
                 THEN [acc EXCEPT !.methods =
                          DictSet(@, child.name, _parse_function(child))]
                 ELSE IF child.kind = "Assign"
                 THEN [acc EXCEPT !.class_variables =
                          assign_targets(child.targets, child.value, @)]
                 ELSE acc)

_parse_class(class_node) ==
    LET acc == class_loop(iter_child_nodes(class_node),
                          [methods |-> EmptyDict, class_variables |-> EmptyDict])
    IN  [name |-> class_node.name,
         methods |-> acc.methods,
         variables |-> acc.class_variables,
         dependencies |-> _extract_dependencies(class_node),
         line_number |-> class_node.lineno]

_parse_class_raises(class_node) ==
    LET children == iter_child_nodes(class_node)
    IN  \E i \in 1..Len(children) :
            \/ children[i].kind = "FunctionDef" /\ _parse_function_raises(children[i])
            \/ renders_value(children[i]) /\ unparse_raises(children[i].value)

\* The loop of parse_file over the tree's top-level nodes.
RECURSIVE file_loop(_, _)
file_loop(nodes, file_structure) ==
    IF nodes = <<>> THEN file_structure
    ELSE LET node == Head(nodes)
         IN  file_loop(Tail(nodes),
                 IF node.kind = "FunctionDef"
                 THEN LET func_info == _parse_function(node)
                      IN  [file_structure EXCEPT !.functions =
                              DictSet(@, func_info.name, func_info)]
                 ELSE IF node.kind = "ClassDef"
                 THEN LET class_info == _parse_class(node)
                      IN  [file_structure EXCEPT !.classes =
                              DictSet(@, class_info.name, class_info)]
                 ELSE file_structure)

\* A call's outcome: it returns a value or raises an exception.
Return(value) == [raised |-> "", value |-> value]

Raise(exception) == [raised |-> exception, value |-> None]

\* A file on disk: unreadable, or text that is invalid syntax, or text with a
\* syntax tree.
Unreadable == [readable |-> FALSE, valid |-> FALSE, tree |-> Module(<<>>)]

InvalidSyntax == [readable |-> TRUE, valid |-> FALSE, tree |-> Module(<<>>)]

Source(tree) == [readable |-> TRUE, valid |-> TRUE, tree |-> tree]

\* parse_file on a syntax tree: lines 103-118.
parse_tree(tree) ==
    file_loop(iter_child_nodes(tree),
              [functions |-> EmptyDict,
               classes |-> EmptyDict,
               dependencies |-> _extract_dependencies(tree)])

parse_tree_raises(tree) ==
    LET nodes == iter_child_nodes(tree)
    IN  \E i \in 1..Len(nodes) :
            \/ nodes[i].kind = "FunctionDef" /\ _parse_function_raises(nodes[i])
            \/ nodes[i].kind = "ClassDef" /\ _parse_class_raises(nodes[i])

parse_file(file) ==
    IF ~file.readable THEN Raise("OSError")
    ELSE IF ~file.valid THEN Raise("SyntaxError")
    ELSE IF parse_tree_raises(file.tree) THEN Raise("RecursionError")
    ELSE Return(parse_tree(file.tree))

(***************************************************************************)
(* json.dump(obj, f, indent=2).  The encoder dispatches on the Python      *)
(* type: dict, list, str, int.                                             *)
(***************************************************************************)
J_str(s) == [t |-> "str", s |-> s]

J_int(n) == [t |-> "int", n |-> n]

J_list(items) == [t |-> "list", items |-> items]

\* items: the dict's <<key, value>> items, in insertion order
J_dict(items) == [t |-> "dict", items |-> items]

J_strs(l) == J_list([i \in 1..Len(l) |-> J_str(l[i])])

\* the dict literal of _parse_function, in the order of its keys
json_of_function(info) ==
    J_dict(<< <<"name", J_str(info.name)>>,
              <<"variables", J_dict([i \in 1..Len(info.variables) |->
                   <<info.variables[i][1], J_str(info.variables[i][2])>>])>>,
              <<"dependencies", J_strs(info.dependencies)>>,
              <<"line_number", J_int(info.line_number)>> >>)

\* the dict literal of _parse_class
json_of_class(info) ==
    J_dict(<< <<"name", J_str(info.name)>>,
              <<"methods", J_dict([i \in 1..Len(info.methods) |->
                   <<info.methods[i][1], json_of_function(info.methods[i][2])>>])>>,
              <<"variables", J_dict([i \in 1..Len(info.variables) |->
                   <<info.variables[i][1], J_str(info.variables[i][2])>>])>>,
              <<"dependencies", J_strs(info.dependencies)>>,
              <<"line_number", J_int(info.line_number)>> >>)

\* the dict literal of parse_file
json_of_file(fs) ==
    J_dict(<< <<"functions", J_dict([i \in 1..Len(fs.functions) |->
                   <<fs.functions[i][1], json_of_function(fs.functions[i][2])>>])>>,
              <<"classes", J_dict([i \in 1..Len(fs.classes) |->
                   <<fs.classes[i][1], json_of_class(fs.classes[i][2])>>])>>,
              <<"dependencies", J_strs(fs.dependencies)>> >>)

json_of_module(m) == J_dict([i \in 1..Len(m) |-> <<m[i][1], json_of_file(m[i][2])>>])

json_of_project(ps) == J_dict([i \in 1..Len(ps) |-> <<ps[i][1], json_of_module(ps[i][2])>>])

RECURSIVE Spaces(_)
Spaces(n) == IF n = 0 THEN "" ELSE " " \o Spaces(n - 1)

\* a line break and the indentation of a nesting level, two spaces a level
newline_indent(level) == "\n" \o Spaces(2 * level)

RECURSIVE json_encode(_, _), json_items(_, _, _)
\* the items from the i-th on, separated by a comma and a line break
json_items(v, i, level) ==
    IF i > Len(v.items) THEN ""
    ELSE (IF i > 1 THEN "," \o newline_indent(level) ELSE "")
         \o (IF v.t = "dict"
             THEN "\"" \o v.items[i][1] \o "\": " \o json_encode(v.items[i][2], level)
             ELSE json_encode(v.items[i], level))
         \o json_items(v, i + 1, level)

json_encode(v, level) ==
    CASE v.t = "str" -> "\"" \o v.s \o "\""
      [] v.t = "int" -> ToString(v.n)
      [] v.t = "list" ->
            IF v.items = <<>> THEN "[]"
            ELSE "[" \o newline_indent(level + 1) \o json_items(v, 1, level + 1)
                 \o newline_indent(level) \o "]"
      [] v.t = "dict" ->
            IF v.items = <<>> THEN "{}"
            ELSE "{" \o newline_indent(level + 1) \o json_items(v, 1, level + 1)
                 \o newline_indent(level) \o "}"

json_dump(ps) == json_encode(json_of_project(ps), 0)

(***************************************************************************)
(* The file system.  A directory is the sequence of the directory names    *)
(* from the project root down to it; a file is in a directory, with a name *)
(* and a content.                                                          *)
(***************************************************************************)
\* os.path.sep
sep == "/"

Root == <<>>

\* the directories that may hold files
DirPaths == {Root, <<"a", "b">>, <<"a.b">>}

FileNames == {"m.py", "n.py", "__init__.py", "m.txt"}

RECURSIVE SetLines(_, _), BodyLines(_, _), Size(_), BodySize(_)
\* the lines a statement takes: a declaration takes its header line and its body
Size(n) == IF n.kind \in {"FunctionDef", "ClassDef"} THEN 1 + BodySize(n.body) ELSE 1

BodySize(b) == IF b = <<>> THEN 0 ELSE Size(Head(b)) + BodySize(Tail(b))

\* the node with the line numbers the parser gives it when it starts on line l
SetLines(n, l) ==
    IF n.kind \in {"FunctionDef", "ClassDef"}
    THEN [n EXCEPT !.lineno = l, !.body = BodyLines(n.body, l + 1)]
    ELSE n

BodyLines(b, l) ==
    IF b = <<>> THEN <<>>
    ELSE <<SetLines(Head(b), l)>> \o BodyLines(Tail(b), l + Size(Head(b)))

\* ast.parse of a text with these top-level statements
Parsed(body) == Module(BodyLines(body, 1))

\* import os / def f(): x = 1
SourceA ==
    Source(Parsed(<<Import(<<Alias("os", None)>>),
                    FunctionDef("f", <<Assign(<<Name("x")>>, Constant(1))>>)>>))

\* class C: / def g(): pass
SourceB == Source(Parsed(<<ClassDef("C", <<FunctionDef("g", <<Pass>>)>>)>>))

\* def f(): x = <an expression ast.unparse fails on>
SourceDeep == Source(Parsed(<<FunctionDef("f", <<Assign(<<Name("x")>>, TooDeep)>>)>>))

Contents == {SourceA, SourceB, SourceDeep, InvalidSyntax, Unreadable}

\* what a file that is no Python file holds: the parser never opens it
OtherContents == {SourceA, InvalidSyntax}

AllFiles ==
    {f \in [dir : DirPaths, name : FileNames, content : Contents] :
        f.name \in {"m.py", "n.py"} \/ f.content \in OtherContents}

\* the directory trees: at most MaxFiles files, no two in one place
Trees ==
    UNION {{ {f[i] : i \in 1..k} : f \in [1..k -> AllFiles] } : k \in 0..MaxFiles}

WellFormed(files) ==
    \A f, g \in files : f.dir = g.dir /\ f.name = g.name => f = g

IsPrefix(p, d) == Len(p) <= Len(d) /\ SubSeq(d, 1, Len(p)) = p

\* the directories of the tree: the root, and every directory down to a file
Directories(files) ==
    {Root} \cup UNION {{SubSeq(f.dir, 1, k) : k \in 0..Len(f.dir)} : f \in files}

Orderings(S) ==
    {p \in [1..Cardinality(S) -> S] : \A i, j \in 1..Cardinality(S) : p[i] = p[j] => i = j}

\* os.walk is top-down: a directory comes right before the directories below it
IsTopDown(p) ==
    \A i \in 1..Len(p) :
        p[i] # Root =>
            \E j \in 1..(i - 1) :
                /\ p[j] = SubSeq(p[i], 1, Len(p[i]) - 1)
                /\ \A k \in (j + 1)..(i - 1) : IsPrefix(p[j], p[k])

RECURSIVE WalksOf(_, _)
\* the files in the order of the directories, in any order within a directory
WalksOf(files, dirs) ==
    IF dirs = <<>> THEN {<<>>}
    ELSE {here \o below :
            here \in Orderings({f \in files : f.dir = Head(dirs)}),
            below \in WalksOf(files, Tail(dirs))}

\* os.walk(project_path), flattened to the files the two loops of parse_project
\* visit: os.scandir lists a directory in an order of the file system's choice,
\* the same each time while the tree does not change
os_walk(files) ==
    UNION {WalksOf(files, p) : p \in {q \in Orderings(Directories(files)) : IsTopDown(q)}}

\* os.path.relpath(root, self.project_path)
RECURSIVE join(_)
join(dir) ==
    IF Len(dir) = 1 THEN dir[1] ELSE dir[1] \o sep \o join(Tail(dir))

relpath(dir) == IF dir = Root THEN "." ELSE join(dir)

\* line 127
module_name_of(dir) == Replace(relpath(dir), sep, ".")

(***************************************************************************)
(* PythonProjectParser: the project walker.                                *)
(***************************************************************************)
\* lines 135-136: if module_name not in self.project_structure: ... = {}
init_module(ps, module_name) ==
    IF ~DictHas(ps, module_name) THEN DictSet(ps, module_name, EmptyDict) ELSE ps

\* line 139: self.project_structure[module_name][file] = file_structure
store_file(ps, module_name, file, file_structure) ==
    DictSet(ps, module_name, DictSet(DictGet(ps, module_name), file, file_structure))

\* One turn of the inner loop of parse_project on file f: the project
\* structure after it, and the exception that leaves the loop, if any.
visit_file(ps, f) ==
    IF ~_is_python_file(f.name) THEN [ps |-> ps, raised |-> ""]
    ELSE LET module_name == module_name_of(f.dir)
             ps1 == init_module(ps, module_name)
             outcome == parse_file(f.content)
         IN  IF outcome.raised # ""
             THEN [ps |-> ps1, raised |-> outcome.raised]
             ELSE [ps |-> store_file(ps1, module_name, f.name, outcome.value),
                   raised |-> ""]

RECURSIVE parse_project_from(_, _)
\* parse_project as a whole, on the files of a walk: the loops run until the
\* walk ends or an exception leaves them
parse_project_from(walk, ps) ==
    IF walk = <<>> THEN [ps |-> ps, raised |-> ""]
    ELSE LET r == visit_file(ps, Head(walk))
         IN  IF r.raised # "" THEN r ELSE parse_project_from(Tail(walk), r.ps)

VARIABLES
    files,              \* the directory tree under project_path
    walk_order,         \* the order in which os.walk lists the tree's files
    caller,             \* "main" (the script) or "client" (a user of the class)
    pc,                 \* where the caller is
    project_structure,  \* self.project_structure of the caller's parser
    todo,               \* parse_project: the files the loops have yet to visit
    parsed,             \* the files parse_file was called on in this parse_project
    before,             \* self.project_structure when this parse_project began
    output_file,        \* the text at output_path, None while there is no file
    run,                \* this parse_project: "first", "again" (same parser), "fresh" (a new one)
    outputs,            \* what save_to_json wrote after a parse_project that returned
    node,               \* a syntax tree handed to a syntax-tree function
    called,             \* the syntax-tree function called on node, "" before
    result              \* what the call returned

walker_vars ==
    <<files, walk_order, caller, pc, project_structure, todo, parsed, before,
      run, output_file, outputs>>

ast_vars == <<node, called, result>>

vars == <<walker_vars, ast_vars>>

\* __init__: a parser with an empty project structure
Init ==
    /\ node = Module(<<>>)
    /\ called = ""
    /\ result = None
    /\ files \in {t \in Trees : WellFormed(t)}
    /\ walk_order \in os_walk(files)
    /\ caller \in {"main", "client"}
    /\ pc = "constructed"
    /\ project_structure = EmptyDict
    /\ todo = <<>>
    /\ parsed = <<>>
    /\ before = EmptyDict
    /\ run = ""
    /\ output_file = None
    /\ outputs = {}


\* parser = PythonProjectParser(project_path), again
new_parser ==
    /\ caller = "client"
    /\ pc \in {"returned", "raised"}
    /\ pc' = "constructed"
    /\ project_structure' = EmptyDict
    /\ todo' = <<>>
    /\ parsed' = <<>>
    /\ before' = EmptyDict
    /\ UNCHANGED <<files, walk_order, caller, run, output_file, outputs, ast_vars>>

\* parser.parse_project() is called: os.walk starts
parse_project_call ==
    /\ \/ pc = "constructed"
       \/ caller = "client" /\ pc \in {"returned", "raised"}
    /\ pc' = "walking"
    /\ todo' = walk_order
    /\ parsed' = <<>>
    /\ before' = project_structure
    /\ run' = IF run = "" THEN "first" ELSE IF pc = "constructed" THEN "fresh" ELSE "again"
    /\ UNCHANGED <<files, walk_order, caller, project_structure, output_file, outputs,
                   ast_vars>>

\* line 130: the file is not a Python file
skip_file ==
    /\ pc = "walking"
    /\ todo # <<>>
    /\ ~_is_python_file(Head(todo).name)
    /\ todo' = Tail(todo)
    /\ UNCHANGED <<files, walk_order, caller, pc, project_structure, parsed, before,
                   run, output_file, outputs, ast_vars>>

\* lines 130-139: parse_file returns and its result is stored
parse_and_store ==
    /\ pc = "walking"
    /\ todo # <<>>
    /\ _is_python_file(Head(todo).name)
    /\ visit_file(project_structure, Head(todo)).raised = ""
    /\ project_structure' = visit_file(project_structure, Head(todo)).ps
    /\ parsed' = Append(parsed, Head(todo))
    /\ todo' = Tail(todo)
    /\ UNCHANGED <<files, walk_order, caller, pc, before, run, output_file, outputs, ast_vars>>

\* A slip: the exception is caught in the loop and the walk goes on.
parse_and_raise_caught ==
    /\ pc = "walking"
    /\ todo # <<>>
    /\ _is_python_file(Head(todo).name)
    /\ visit_file(project_structure, Head(todo)).raised # ""
    /\ project_structure' = visit_file(project_structure, Head(todo)).ps
    /\ parsed' = Append(parsed, Head(todo))
    /\ todo' = Tail(todo)
    /\ UNCHANGED <<files, walk_order, caller, pc, before, run, output_file, outputs,
                   ast_vars>>

\* lines 130-139: parse_file raises; nothing in parse_project catches it
parse_and_raise ==
    /\ pc = "walking"
    /\ todo # <<>>
    /\ _is_python_file(Head(todo).name)
    /\ visit_file(project_structure, Head(todo)).raised # ""
    /\ project_structure' = visit_file(project_structure, Head(todo)).ps
    /\ parsed' = Append(parsed, Head(todo))
    /\ todo' = Tail(todo)
    /\ pc' = "raised"
    /\ UNCHANGED <<files, walk_order, caller, before, run, output_file, outputs, ast_vars>>

\* line 141: the walk is over, parse_project returns
parse_project_return ==
    /\ pc = "walking"
    /\ todo = <<>>
    /\ pc' = "returned"
    /\ UNCHANGED <<files, walk_order, caller, project_structure, todo, parsed, before,
                   run, output_file, outputs, ast_vars>>

\* A slip: open(output_path, 'a'), the text is added to the file.
save_to_json_append ==
    /\ output_file' = (IF output_file = None THEN "" ELSE output_file)
                          \o json_dump(project_structure)
    /\ outputs' = IF pc = "returned"
                   THEN outputs \cup {[text |-> output_file', run |-> run]}
                   ELSE outputs

\* save_to_json: open(output_path, 'w') and json.dump
save_to_json ==
    /\ output_file' = json_dump(project_structure)
    /\ outputs' = IF pc = "returned"
                   THEN outputs \cup {[text |-> output_file', run |-> run]}
                   ELSE outputs

\* main, lines 161-162: after parse_project has returned
main_save ==
    /\ caller = "main"
    /\ pc = "returned"
    /\ save_to_json
    /\ pc' = "done"
    /\ UNCHANGED <<files, walk_order, caller, project_structure, todo, parsed, before,
                   run, ast_vars>>

\* a user of the class calls save_to_json after parse_project, also after an
\* exception it caught
client_save ==
    /\ caller = "client"
    /\ pc \in {"returned", "raised"}
    /\ save_to_json
    /\ UNCHANGED <<files, walk_order, caller, pc, project_structure, todo, parsed,
                   before, run, ast_vars>>

Next ==
    \/ new_parser
    \/ parse_project_call
    \/ skip_file
    \/ parse_and_store
    \/ parse_and_raise
    \/ parse_project_return
    \/ main_save
    \/ client_save

Spec == Init /\ [][Next]_vars

(***************************************************************************)
(* The syntax-tree functions on bounded syntax trees.                      *)
(***************************************************************************)
SeqsUpTo(S, n) == UNION {[1..k -> S] : k \in 0..n}

\* x = 1, x = 2, x = y = 3, self.x = 1, x, y = t, x = <unrenderable>
AssignStmts ==
    {Assign(<<Name("x")>>, Constant(1)),
     Assign(<<Name("x")>>, Constant(2)),
     Assign(<<Name("x"), Name("y")>>, Constant(3)),
     Assign(<<Attribute("self", "x")>>, Constant(1)),
     Assign(<<TupleOf(<<Name("x"), Name("y")>>)>>, Name("t")),
     Assign(<<Name("x")>>, TooDeep)}

\* import a.b / import os, sys as s / from c import d / from . import x
ImportStmts ==
    {Import(<<Alias("a.b", None)>>),
     Import(<<Alias("os", None), Alias("sys", "s")>>),
     ImportFrom("c", <<Alias("d", None)>>),
     ImportFrom(None, <<Alias("x", None)>>)}

\* def h(): import z; w = 1   (a nested scope)
NestedDef == FunctionDef("h", <<Import(<<Alias("z", None)>>), Assign(<<Name("w")>>, Constant(1))>>)

FunctionStmts == AssignStmts \cup ImportStmts \cup {Pass, NestedDef}

\* the functions under test: def f(): <at most MaxBody statements>
FunctionInputs == {SetLines(FunctionDef("f", b), 1) : b \in SeqsUpTo(FunctionStmts, MaxBody)}

\* def m(): x = 1 / def m(): import u; x = 2 / def k(): pass
Methods ==
    {FunctionDef("m", <<Assign(<<Name("x")>>, Constant(1))>>),
     FunctionDef("m", <<Import(<<Alias("u", None)>>), Assign(<<Name("x")>>, Constant(2))>>),
     FunctionDef("k", <<Pass>>)}

ClassStmts ==
    Methods \cup
    {Assign(<<Name("x")>>, Constant(1)),
     Assign(<<Name("x")>>, Constant(2)),
     Assign(<<Name("x"), Name("y")>>, Constant(3)),
     Assign(<<Attribute("C", "x")>>, Constant(1)),
     Import(<<Alias("a.b", None)>>),
     ImportFrom(None, <<Alias("x", None)>>),
     ClassDef("N", <<Import(<<Alias("z", None)>>)>>)}

\* the classes under test: class C: <at most MaxDecls statements>
ClassInputs == {SetLines(ClassDef("C", b), 1) : b \in SeqsUpTo(ClassStmts, MaxDecls)}

\* class C: x = 1 / class C: def m(): x = 1 / class D: import v
Classes ==
    {ClassDef("C", <<Assign(<<Name("x")>>, Constant(1))>>),
     ClassDef("C", <<FunctionDef("m", <<Assign(<<Name("x")>>, Constant(1))>>)>>),
     ClassDef("D", <<Import(<<Alias("v", None)>>)>>)}

TopLevelStmts ==
    Methods \cup Classes \cup
    {Assign(<<Name("x")>>, Constant(1)),
     Import(<<Alias("a.b", None)>>),
     ImportFrom("c", <<Alias("d", None)>>),
     FunctionDef("f", <<Assign(<<Name("x")>>, TooDeep)>>)}

\* the files under test: at most MaxDecls top-level statements, or no syntax
\* tree at all
FileInputs ==
    {Source(Parsed(b)) : b \in SeqsUpTo(TopLevelStmts, MaxDecls)}
    \cup {InvalidSyntax, Unreadable}

InitAst ==
    /\ node \in FunctionInputs \cup ClassInputs \cup FileInputs
    /\ called = ""
    /\ result = None
    /\ files = {}
    /\ walk_order = <<>>
    /\ caller = "client"
    /\ pc = "constructed"
    /\ project_structure = EmptyDict
    /\ todo = <<>>
    /\ parsed = <<>>
    /\ before = EmptyDict
    /\ run = ""
    /\ output_file = None
    /\ outputs = {}

IsFile(n) == "readable" \in DOMAIN n

IsTree(n) == IF IsFile(n) THEN n.readable /\ n.valid ELSE TRUE

TreeOf(n) == IF IsFile(n) THEN n.tree ELSE n

call_extract_dependencies ==
    /\ called = ""
    /\ IsTree(node)
    /\ called' = "_extract_dependencies"
    /\ result' = Return(_extract_dependencies(TreeOf(node)))
    /\ UNCHANGED <<node, walker_vars>>

call_parse_function ==
    /\ called = ""
    /\ ~IsFile(node)
    /\ node.kind = "FunctionDef"
    /\ called' = "_parse_function"
    /\ result' = IF _parse_function_raises(node) THEN Raise("RecursionError")
                 ELSE Return(_parse_function(node))
    /\ UNCHANGED <<node, walker_vars>>

call_parse_class ==
    /\ called = ""
    /\ ~IsFile(node)
    /\ node.kind = "ClassDef"
    /\ called' = "_parse_class"
    /\ result' = IF _parse_class_raises(node) THEN Raise("RecursionError")
                 ELSE Return(_parse_class(node))
    /\ UNCHANGED <<node, walker_vars>>

call_parse_file ==
    /\ called = ""
    /\ IsFile(node)
    /\ called' = "parse_file"
    /\ result' = parse_file(node)
    /\ UNCHANGED <<node, walker_vars>>

NextAst ==
    \/ call_extract_dependencies
    \/ call_parse_function
    \/ call_parse_class
    \/ call_parse_file

SpecAst == InitAst /\ [][NextAst]_vars

(***************************************************************************)
(* The claims.                                                             *)
(***************************************************************************)
KeySet(d) == {d[i][1] : i \in 1..Len(d)}

\* the entries of a dict under a key
Entries(d, k) == Cardinality({i \in 1..Len(d) : d[i][1] = k})

Elements(q) == {q[i] : i \in 1..Len(q)}

\* the eligible files: the name ends in .py and does not start with __
Eligible(f) == f.name \in {"m.py", "n.py"}

\* parse_file fails on the file: unreadable, invalid syntax, unrenderable expression
Failing(f) == f.content \in {Unreadable, InvalidSyntax, SourceDeep}

\* the [module_path][file_name] keys of a project structure
FileKeys(ps) ==
    UNION {{<<ps[i][1], ps[i][2][j][1]>> : j \in 1..Len(ps[i][2])} : i \in 1..Len(ps)}

\* the directory's names joined by '.', '.' for the root
RECURSIVE DotJoined(_)
DotJoined(dir) ==
    IF dir = <<>> THEN "."
    ELSE IF Len(dir) = 1 THEN dir[1]
    ELSE dir[1] \o "." \o DotJoined(Tail(dir))

\* C1: when parse_file fails on an eligible file, the failure leaves
\* parse_project (it neither goes on nor returns), no file after the failing
\* one is parsed, and in a run of main the output file is never written.
C1_FailureAborts ==
    /\ \A i \in 1..Len(parsed) :
           Failing(parsed[i]) => i = Len(parsed) /\ pc = "raised"
    /\ pc = "raised" =>
           /\ parsed # <<>>
           /\ Failing(parsed[Len(parsed)])
           /\ parsed \o SelectSeq(todo, Eligible) = SelectSeq(walk_order, Eligible)
    /\ caller = "main" /\ (\E f \in files : Eligible(f) /\ Failing(f)) =>
           output_file = None /\ pc \notin {"returned", "done"}

\* C1's case: main's parse_project has raised, and an eligible file is left unvisited
C1_Witness ==
    /\ caller = "main"
    /\ pc = "raised"
    /\ \E i \in 1..Len(todo) : Eligible(todo[i])

\* C2: over an unchanged tree, every save_to_json after a parse_project that
\* returned writes the same text, on the same parser and on a new one.
C2_Idempotent == \A o1, o2 \in outputs : o1.text = o2.text

\* C2's case: a first run, a second run of the same parser and a run of a new
\* parser were each saved, with two modules in the structure
C2_Witness ==
    /\ {o.run : o \in outputs} = {"first", "again", "fresh"}
    /\ Len(project_structure) = 2

\* C3: after a parse_project that returned, the structure has an entry
\* [module_path][file_name] exactly for the eligible files, module_path the
\* directory's names joined by '.', and no module without a file.
C3_EntriesAreEligibleFiles ==
    pc \in {"returned", "done"} =>
        /\ FileKeys(project_structure) =
               {<<DotJoined(f.dir), f.name>> : f \in {g \in files : Eligible(g)}}
        /\ \A i \in 1..Len(project_structure) : project_structure[i][2] # EmptyDict

\* C3's case: a tree with an eligible file two directories down and a file
\* that is not eligible, parsed
C3_Witness ==
    /\ pc = "returned"
    /\ \E f \in files : Eligible(f) /\ f.dir = <<"a", "b">>
    /\ \E f \in files : ~Eligible(f)
    /\ FileKeys(project_structure) = {<<"a.b", "m.py">>}

\* a project structure as a nested mapping, the order of the keys ignored
AsMapping(ps) ==
    [m \in KeySet(ps) |->
        [f \in KeySet(DictGet(ps, m)) |-> DictGet(DictGet(ps, m), f)]]

\* C8: when every eligible file parses, parse_project gives the same nested
\* mapping for every order in which the directories and files are visited.
C8_OrderIndependent ==
    pc = "returned" /\ run = "first" =>
        \A w \in os_walk(files) :
            AsMapping(parse_project_from(w, EmptyDict).ps) = AsMapping(project_structure)

\* the [module_path][file_name] entries of a project structure, with their values
FileEntries(ps) ==
    UNION {{<<ps[i][1], ps[i][2][j][1], ps[i][2][j][2]>> : j \in 1..Len(ps[i][2])} :
              i \in 1..Len(ps)}

\* C9: when parse_project fails, project_structure holds no entry for the
\* files parsed before the failing one: its entries are those before the call.
C9_NoPartialStructure ==
    pc = "raised" => FileEntries(project_structure) = FileEntries(before)

\* C10: no two eligible files get the same (module_path, file_name) key, and
\* after a parse_project that returned the entries are as many as the
\* eligible files.
C10_KeysInjective ==
    pc = "returned" =>
        /\ \A f, g \in files :
               Eligible(f) /\ Eligible(g) /\ f # g =>
                   <<module_name_of(f.dir), f.name>> # <<module_name_of(g.dir), g.name>>
        /\ Cardinality(FileKeys(project_structure)) =
               Cardinality({f \in files : Eligible(f)})

\* the call under test returned
Returned(function) == called = function /\ result.raised = ""

\* the statements that are direct children of the node under test
Body == TreeOf(node).body

\* the text of the values the trees under test assign
TextOf(value) ==
    IF value = Constant(1) THEN "1"
    ELSE IF value = Constant(2) THEN "2"
    ELSE IF value = Constant(3) THEN "3"
    ELSE "t"

\* what an import statement imports: the name for a plain import,
\* <module>.<name> for a from-import, <module> empty when none is given
ImportedBy(stmt) ==
    IF stmt.kind = "Import"
    THEN [i \in 1..Len(stmt.names) |-> stmt.names[i].name]
    ELSE IF stmt.kind = "ImportFrom"
    THEN [i \in 1..Len(stmt.names) |->
             (IF stmt.module = None THEN "" ELSE stmt.module)
             \o "." \o stmt.names[i].name]
    ELSE <<>>

RECURSIVE DirectImports(_)
DirectImports(body) ==
    IF body = <<>> THEN <<>> ELSE ImportedBy(Head(body)) \o DirectImports(Tail(body))

\* the names the trees under test import in nested bodies only
NestedImports == {"z", "u", "v"}

\* the dependencies a parse result carries, with the node they are of
DependenciesOf ==
    IF called = "_extract_dependencies" THEN result.value
    ELSE result.value.dependencies

\* C4: the dependencies of a node (file root, function, class) are, in order,
\* one entry per imported name of the imports that are its direct children;
\* an import in a nested body is never among them.
C4_DirectImports ==
    /\ called # "" /\ result.raised = "" =>
           /\ DependenciesOf = DirectImports(Body)
           /\ Elements(DependenciesOf) \cap NestedImports = {}
    /\ Returned("_parse_class") =>
           \A i \in 1..Len(result.value.methods) :
               \E j \in 1..Len(Body) :
                   /\ Body[j].kind = "FunctionDef"
                   /\ result.value.methods[i][2].dependencies = DirectImports(Body[j].body)

\* C4's case: a function with a two-name import, a from-import without a
\* module and a nested function that imports
C4_Witness ==
    /\ Returned("_extract_dependencies")
    /\ Body = <<Import(<<Alias("os", None), Alias("sys", "s")>>),
                SetLines(NestedDef, 3),
                ImportFrom(None, <<Alias("x", None)>>)>>
    /\ result.value = <<"os", "sys", ".x">>

\* the direct children that are simple assignments to the bare name: one
\* target, the name
SimpleAssignments(name) ==
    {i \in 1..Len(Body) :
        /\ Body[i].kind = "Assign"
        /\ Body[i].targets = <<Name(name)>>}

\* the direct children that are assignments with the bare name among their targets
AssignmentsTo(name) ==
    {i \in 1..Len(Body) :
        /\ Body[i].kind = "Assign"
        /\ \E k \in 1..Len(Body[i].targets) : Body[i].targets[k] = Name(name)}

Last(S) == CHOOSE i \in S : \A j \in S : j <= i

\* C5, as stated: with several simple assignments to one name, variables[name]
\* is the text of the last simple assignment's value, under one entry.
C5_LastSimpleAssignmentWins ==
    Returned("_parse_function") \/ Returned("_parse_class") =>
        \A name \in {"x", "y"} :
            Cardinality(SimpleAssignments(name)) >= 2 =>
                /\ Entries(result.value.variables, name) = 1
                /\ DictGet(result.value.variables, name) =
                       TextOf(Body[Last(SimpleAssignments(name))].value)

\* C5, amended: with several assignments that have the name among their
\* targets, variables[name] is the text of the last one's value, under one entry.
C5_LastAssignmentWins ==
    Returned("_parse_function") \/ Returned("_parse_class") =>
        \A name \in {"x", "y"} :
            Cardinality(AssignmentsTo(name)) >= 2 =>
                /\ Entries(result.value.variables, name) = 1
                /\ DictGet(result.value.variables, name) =
                       TextOf(Body[Last(AssignmentsTo(name))].value)

\* C5's case: x = 1, then a nested function, then x = 2
C5_Witness ==
    /\ Returned("_parse_function")
    /\ Body = <<Assign(<<Name("x")>>, Constant(1)),
                SetLines(NestedDef, 3),
                Assign(<<Name("x")>>, Constant(2))>>
    /\ result.value.variables = << <<"x", "2">> >>

\* C6, as stated: a variable is recorded only for an assignment with exactly
\* one target that is a bare name.
C6_OnlySingleTarget ==
    Returned("_parse_function") \/ Returned("_parse_class") =>
        KeySet(result.value.variables) =
            {name \in {"x", "y", "w", "t", "self", "C"} : SimpleAssignments(name) # {}}

\* C6, amended: a variable is recorded for every bare name among the targets
\* of an assignment that is a direct child, a chained assignment's names
\* included; attribute and unpacking targets record nothing.
C6_EveryNameTarget ==
    Returned("_parse_function") \/ Returned("_parse_class") =>
        KeySet(result.value.variables) =
            {name \in {"x", "y", "w", "t", "self", "C"} : AssignmentsTo(name) # {}}

\* C6's case: self.x = 1, then x, y = t, then x = y = 3
C6_Witness ==
    /\ Returned("_parse_function")
    /\ Body = <<Assign(<<Attribute("self", "x")>>, Constant(1)),
                Assign(<<TupleOf(<<Name("x"), Name("y")>>)>>, Name("t")),
                Assign(<<Name("x"), Name("y")>>, Constant(3))>>
    /\ result.value.variables = << <<"x", "3">>, <<"y", "3">> >>

\* the direct children that declare a function, or a class, of the name
Declarations(kind, name) ==
    {i \in 1..Len(Body) : Body[i].kind = kind /\ Body[i].name = name}

DeclaredNames(kind) == {Body[i].name : i \in {j \in 1..Len(Body) : Body[j].kind = kind}}

\* the mapping has one entry for each declared name: the parse of the name's
\* last declaration
LastWins(mapping, kind) ==
    /\ KeySet(mapping) = DeclaredNames(kind)
    /\ \A name \in DeclaredNames(kind) :
           /\ Entries(mapping, name) = 1
           /\ DictGet(mapping, name) =
                  IF kind = "FunctionDef"
                  THEN _parse_function(Body[Last(Declarations(kind, name))])
                  ELSE _parse_class(Body[Last(Declarations(kind, name))])

\* C7: methods of a class, and functions and classes of a file, have one entry
\* for each name, the parse of the last declaration of that name.
C7_LastDeclarationWins ==
    /\ Returned("_parse_class") => LastWins(result.value.methods, "FunctionDef")
    /\ Returned("parse_file") =>
           /\ LastWins(result.value.functions, "FunctionDef")
           /\ LastWins(result.value.classes, "ClassDef")

\* C7's case: a class with two different methods of one name
C7_Witness ==
    /\ Returned("_parse_class")
    /\ Len(Body) = 2
    /\ Declarations("FunctionDef", "m") = {1, 2}
    /\ Body[1].body # Body[2].body
    /\ DictGet(result.value.methods, "m").variables = << <<"x", "2">> >>

====
